---- MODULE Spec2Model ----
(***************************************************************************)
(* Model of the uni-verse-notes portal: the Postgres tables with their    *)
(* row-level-security policies and cascading foreign keys                 *)
(* (supabase/migrations), and the React pages that talk to them           *)
(* (AuthContext, Dashboard, SubjectDetail, Admin).                        *)
(*                                                                         *)
(* Spec         : the data layer.  Every principal may send any request   *)
(*                of the shapes the application sends; the policies       *)
(*                decide.                                                  *)
(* SpecView     : a reader's browser ('/' and '/subjects/:id') over a     *)
(*                filled database that admins keep changing.              *)
(* SpecScenario : a reader's browser over one subject, one chapter and    *)
(*                one note, while an admin grants the reader access.      *)
(* SpecAdmin    : a browser on '/' and '/admin' managing users.           *)
(* SpecContent  : the bootstrap admin's browser managing content.         *)
(* SpecToggle   : SpecAdmin beside a second admin who grants and revokes  *)
(*                access.                                                  *)
(* SpecLegacy   : the users table beside accounts that were created       *)
(*                before the sign-up trigger and have no row.             *)
(* SpecAuth     : AuthProvider alone, the principal changing under the    *)
(*                running document.                                       *)
(* SpecRace     : the Admin page's users tab with the toggle handlers     *)
(*                split at their await, beside a second admin.            *)
(* SpecOrder    : the ORDER BY of every listing, over tables whose rows   *)
(*                carry their name/title and created_at.                  *)
(***************************************************************************)
EXTENDS Integers, FiniteSets, Sequences, TLC

\* ------------------------------------------------------------------ bounds
MaxSubjects == 2
MaxChapters == 2
MaxNotes == 1
MaxVideos == 1
MaxFiles == 1
\* SpecOrder: rows per table, and the collation ranks a name/title can take.
MaxListed == 2
MaxTitle == 2
\* SpecRace: toggle handlers of one Admin page awaiting their response.
MaxPending == 2

\* The principals (e-mail addresses found in auth.jwt() ->> 'email').
Emails == {"a@x", "u@x"}
\* A request that carries no JWT: auth.jwt() ->> 'email' is NULL.
Anon == "anon"
Null == "null"

VARIABLES
    schema,     \* which of the migration variants built the database
    authUsers,  \* auth.users: the e-mails that signed up
    users,      \* public.users
    subjects,   \* public.subjects
    chapters,   \* public.chapters
    notes,      \* public.notes
    videos,     \* public.videos
    storage,    \* storage.objects of bucket 'pdfs' (object keys)
    seq,        \* per table: how many ids gen_random_uuid() has handed out
    session,    \* AuthProvider: e-mail of the session's user, or Null
    userData,   \* AuthProvider: the fetched users row, or Null
    fetches,    \* fetchUserData calls scheduled and not yet answered (e-mails)
    route,      \* the route the router shows
    landing,    \* the URL this document was loaded at (its first history entry)
    dirty,      \* a page was mounted or userData changed: its effect is due
    dash,       \* state of the mounted Dashboard
    sd,         \* state of the mounted SubjectDetail
    ad,         \* state of the mounted Admin page
    toast       \* the last toast raised: "none", "success" or "error"

serverVars == <<schema, authUsers, users, subjects, chapters, notes, videos, storage, seq>>
clientVars == <<session, userData, fetches, route, landing, dirty, dash, sd, ad, toast>>
vars == <<serverVars, clientVars>>

Ids(S) == {r.id : r \in S}

\* ---------------------------------------------------------------- schema
\* videosFk: the table videos.chapter_id references.  Migration ...094745
\* writes REFERENCES public.videos(id); migration ...094909 writes
\* REFERENCES public.chapters(id).  Both create public.chapters, so exactly
\* one of the two has been applied.
\* isAdminColumn: whether public.users has the is_admin column that
\* Admin.tsx declares, reads and updates; no migration present adds it.
Schemas == [videosFk : {"chapters", "videos"}, isAdminColumn : BOOLEAN]

\* CREATE TABLE public.users + ADD COLUMN role: the columns of a users row.
UserRow(id, email, access, role, isAdmin) ==
    [id |-> id, email |-> email, access |-> access, role |-> role, is_admin |-> isAdmin]

\* ------------------------------------------------- policy helper functions
user_has_access(user_email) ==
    \E r \in users : r.email = user_email /\ r.access = TRUE

is_admin(jwtEmail) ==
    \E r \in users : r.email = jwtEmail /\ r.role = "admin"

\* ---------------------------------------------------------------- policies
\* "Users with access can view <t>" (FOR SELECT) OR "Admins can manage <t>"
\* (FOR ALL): permissive policies are OR-ed.
ContentSelectPolicy_mut_open(c) == TRUE

ContentSelectPolicy(c) == user_has_access(c) \/ is_admin(c)

\* "Admins can manage <t>" FOR ALL USING (is_admin()): the only policy for
\* INSERT and DELETE on subjects, chapters, notes, videos.
ContentWritePolicy_mut_access(c) == user_has_access(c)

ContentWritePolicy(c) == is_admin(c)

\* "Users can view their own record" OR "Admins can view all users".
UsersSelectPolicy_mut_adminonly(c, r) == is_admin(c)

UsersSelectPolicy(c, r) == r.email = c \/ is_admin(c)

\* "Users can insert their own record" WITH CHECK (email = jwt email).
UsersInsertPolicy(c, email) == email = c

\* "Admins can update all users" USING (is_admin()).
UsersUpdatePolicy(c) == is_admin(c)

\* No policy FOR DELETE (or FOR ALL) exists on public.users.
UsersDeletePolicy(c) == FALSE

\* "Anyone can view PDFs" FOR SELECT USING (bucket_id = 'pdfs'), on a bucket
\* created public.
StorageSelectPolicy(c) == TRUE

StorageInsertPolicy_mut_authenticated(c) == c # Anon

\* "Admins can upload PDFs" WITH CHECK (bucket_id = 'pdfs' AND is_admin()).
StorageInsertPolicy(c) == is_admin(c)

\* ------------------------------------------------------------------ reads
SelectSubjects(c) == IF ContentSelectPolicy(c) THEN subjects ELSE {}
SelectChapters(c) == IF ContentSelectPolicy(c) THEN chapters ELSE {}
SelectNotes(c) == IF ContentSelectPolicy(c) THEN notes ELSE {}
SelectVideos(c) == IF ContentSelectPolicy(c) THEN videos ELSE {}
SelectUsers(c) == {r \in users : UsersSelectPolicy(c, r)}
\* Download of the objects of bucket 'pdfs' (by public URL or by select).
SelectStorage(c) == {k \in storage : StorageSelectPolicy(c)}

\* ------------------------------------------------------- foreign-key rules
\* ON DELETE CASCADE from subjects to chapters and from chapters to notes
\* (and to videos when videos.chapter_id references chapters).
ChaptersAfter_mut_nocascade(subs, chs) == chs

ChaptersAfter(subs, chs) == {c \in chs : c.subject_id \in Ids(subs)}

NotesAfter_mut_setnull(chs, ns) ==
    {IF n.chapter_id \in Ids(chs) THEN n ELSE [n EXCEPT !.chapter_id = 0] : n \in ns}

NotesAfter(chs, ns) == {n \in ns : n.chapter_id \in Ids(chs)}

VideosAfter(chs, vs) ==
    IF schema.videosFk = "chapters"
    THEN {v \in vs : v.chapter_id \in Ids(chs)}
    ELSE vs

\* The foreign key checked when a videos row is inserted.  Ids are UUIDs:
\* the id of a chapter is never the id of a video.
VideoFkHolds(chapterId) ==
    IF schema.videosFk = "chapters" THEN chapterId \in Ids(chapters) ELSE FALSE

\* --------------------------------------------------------------- sign-up
\* handle_new_user(): INSERT (email, access=false) ON CONFLICT (email) DO
\* NOTHING; role takes its column default 'user' (is_admin its default).
handle_new_user_mut_noconflict(email) ==
    /\ users' = users \cup {UserRow(seq.users + 1, email, FALSE, "user", FALSE)}
    /\ seq' = [seq EXCEPT !.users = @ + 1]

handle_new_user(email) ==
    IF \E r \in users : r.email = email
    THEN UNCHANGED <<users, seq>>
    ELSE /\ users' = users \cup {UserRow(seq.users + 1, email, FALSE, "user", FALSE)}
         /\ seq' = [seq EXCEPT !.users = @ + 1]

\* Trigger on_auth_user_created: AFTER INSERT ON auth.users.
SignUp(e) ==
    /\ e \notin authUsers
    /\ authUsers' = authUsers \cup {e}
    /\ handle_new_user(e)
    /\ UNCHANGED <<schema, subjects, chapters, notes, videos, storage>>

\* ------------------------------------------------ requests: content tables
\* The callers of the data layer: a signed-up principal, or nobody.
Callers == authUsers \cup {Anon}

\* INSERT INTO subjects: refused with an error unless the policy admits it.
InsertSubject(c) ==
    IF ContentWritePolicy(c)
    THEN /\ subjects' = subjects \cup {[id |-> seq.subjects + 1]}
         /\ seq' = [seq EXCEPT !.subjects = @ + 1]
    ELSE UNCHANGED <<subjects, seq>>

\* INSERT INTO chapters: policy, then subject_id REFERENCES subjects(id).
InsertChapterOk(c, subjectId) ==
    ContentWritePolicy(c) /\ subjectId \in Ids(subjects)

InsertChapter(c, subjectId) ==
    IF InsertChapterOk(c, subjectId)
    THEN /\ chapters' = chapters \cup {[id |-> seq.chapters + 1, subject_id |-> subjectId]}
         /\ seq' = [seq EXCEPT !.chapters = @ + 1]
    ELSE UNCHANGED <<chapters, seq>>

\* INSERT INTO notes: policy, then chapter_id REFERENCES chapters(id).
InsertNoteOk(c, chapterId) ==
    ContentWritePolicy(c) /\ chapterId \in Ids(chapters)

InsertNote(c, chapterId, pdfUrl) ==
    IF InsertNoteOk(c, chapterId)
    THEN /\ notes' = notes \cup
                {[id |-> seq.notes + 1, chapter_id |-> chapterId, pdf_url |-> pdfUrl]}
         /\ seq' = [seq EXCEPT !.notes = @ + 1]
    ELSE UNCHANGED <<notes, seq>>

\* INSERT INTO videos: policy, then the chapter_id foreign key.
InsertVideoOk(c, chapterId) ==
    ContentWritePolicy(c) /\ VideoFkHolds(chapterId)

InsertVideo(c, chapterId) ==
    IF InsertVideoOk(c, chapterId)
    THEN /\ videos' = videos \cup {[id |-> seq.videos + 1, chapter_id |-> chapterId]}
         /\ seq' = [seq EXCEPT !.videos = @ + 1]
    ELSE UNCHANGED <<videos, seq>>

\* storage.from('pdfs').upload(key, file).
Upload(c) ==
    IF StorageInsertPolicy(c)
    THEN /\ storage' = storage \cup {seq.files + 1}
         /\ seq' = [seq EXCEPT !.files = @ + 1]
    ELSE UNCHANGED <<storage, seq>>

\* DELETE FROM subjects WHERE id = subjectId: rows the policy hides are not
\* deleted and no error is raised; the delete cascades.
DeleteSubject(c, subjectId) ==
    LET subs == IF ContentWritePolicy(c)
                THEN {s \in subjects : s.id # subjectId} ELSE subjects
        chs == ChaptersAfter(subs, chapters)
    IN  /\ subjects' = subs
        /\ chapters' = chs
        /\ notes' = NotesAfter(chs, notes)
        /\ videos' = VideosAfter(chs, videos)

DeleteChapter(c, chapterId) ==
    LET chs == IF ContentWritePolicy(c)
               THEN {x \in chapters : x.id # chapterId} ELSE chapters
    IN  /\ chapters' = chs
        /\ notes' = NotesAfter(chs, notes)
        /\ videos' = VideosAfter(chs, videos)

DeleteNote(c, noteId) ==
    notes' = IF ContentWritePolicy(c) THEN {n \in notes : n.id # noteId} ELSE notes

DeleteVideo(c, videoId) ==
    videos' = IF ContentWritePolicy(c) THEN {v \in videos : v.id # videoId} ELSE videos

\* ---------------------------------------------------- requests: public.users
UserFields == {"access", "role", "is_admin"}
FieldValues(f) == IF f = "role" THEN {"user", "admin"} ELSE BOOLEAN

\* PostgREST refuses an update that names a column the table does not have.
UpdateUserError(field) == field = "is_admin" /\ ~schema.isAdminColumn

Patched_mut_flip(r, field, value) == [r EXCEPT !.access = ~r.access]

Patched(r, field, value) ==
    CASE field = "access" -> [r EXCEPT !.access = value]
      [] field = "role" -> [r EXCEPT !.role = value]
      [] field = "is_admin" -> [r EXCEPT !.is_admin = value]

\* UPDATE users SET field = value WHERE id = userId: rows the policy hides
\* are not updated and no error is raised.
UpdateUser_mut_self(c, userId, field, value) ==
    users' = {IF r.id = userId /\ (UsersUpdatePolicy(c) \/ r.email = c)
              THEN Patched(r, field, value) ELSE r : r \in users}

UpdateUser(c, userId, field, value) ==
    IF UpdateUserError(field) \/ ~UsersUpdatePolicy(c)
    THEN UNCHANGED users
    ELSE users' = {IF r.id = userId THEN Patched(r, field, value) ELSE r : r \in users}

\* INSERT INTO users (email, access, role): WITH CHECK of "Users can insert
\* their own record", then email TEXT NOT NULL UNIQUE.
InsertUser(c, email, access, role) ==
    IF UsersInsertPolicy(c, email) /\ ~\E r \in users : r.email = email
    THEN /\ users' = users \cup {UserRow(seq.users + 1, email, access, role, FALSE)}
         /\ seq' = [seq EXCEPT !.users = @ + 1]
    ELSE UNCHANGED <<users, seq>>

DeleteUser(c, userId) ==
    users' = IF UsersDeletePolicy(c) THEN {r \in users : r.id # userId} ELSE users

\* --------------------------------------------------- data-layer actions
ApiInsertSubject(c) ==
    /\ seq.subjects < MaxSubjects
    /\ InsertSubject(c)
    /\ UNCHANGED <<schema, authUsers, users, chapters, notes, videos, storage, clientVars>>

ApiInsertChapter(c, subjectId) ==
    /\ seq.chapters < MaxChapters
    /\ InsertChapter(c, subjectId)
    /\ UNCHANGED <<schema, authUsers, users, subjects, notes, videos, storage, clientVars>>

ApiUpload(c) ==
    /\ seq.files < MaxFiles
    /\ Upload(c)
    /\ UNCHANGED <<schema, authUsers, users, subjects, chapters, notes, videos, clientVars>>

ApiInsertNote(c, chapterId, pdfUrl) ==
    /\ seq.notes < MaxNotes
    /\ InsertNote(c, chapterId, pdfUrl)
    /\ UNCHANGED <<schema, authUsers, users, subjects, chapters, videos, storage, clientVars>>

ApiInsertVideo(c, chapterId) ==
    /\ seq.videos < MaxVideos
    /\ InsertVideo(c, chapterId)
    /\ UNCHANGED <<schema, authUsers, users, subjects, chapters, notes, storage, clientVars>>

ApiDeleteSubject(c, subjectId) ==
    /\ DeleteSubject(c, subjectId)
    /\ UNCHANGED <<schema, authUsers, users, storage, seq, clientVars>>

ApiDeleteChapter(c, chapterId) ==
    /\ DeleteChapter(c, chapterId)
    /\ UNCHANGED <<schema, authUsers, users, subjects, storage, seq, clientVars>>

ApiDeleteNote(c, noteId) ==
    /\ DeleteNote(c, noteId)
    /\ UNCHANGED <<schema, authUsers, users, subjects, chapters, videos, storage, seq, clientVars>>

ApiDeleteVideo(c, videoId) ==
    /\ DeleteVideo(c, videoId)
    /\ UNCHANGED <<schema, authUsers, users, subjects, chapters, notes, storage, seq, clientVars>>

ApiUpdateUser(c, userId, field, value) ==
    /\ UpdateUser(c, userId, field, value)
    /\ UNCHANGED <<schema, authUsers, subjects, chapters, notes, videos, storage, seq, clientVars>>

ApiInsertUser(c, email, access, role) ==
    /\ seq.users < Cardinality(Emails)
    /\ InsertUser(c, email, access, role)
    /\ UNCHANGED <<schema, authUsers, subjects, chapters, notes, videos, storage, clientVars>>

ApiDeleteUser(c, userId) ==
    /\ DeleteUser(c, userId)
    /\ UNCHANGED <<schema, authUsers, subjects, chapters, notes, videos, storage, seq, clientVars>>

ApiSignUp(e) ==
    /\ SignUp(e)
    /\ UNCHANGED clientVars

\* ------------------------------------------------------------------- Init
\* The database after the migrations and the owner's bootstrap: the first
\* admin's users row is provisioned by hand (nothing in the application can
\* create an admin when there is none), everything else is empty.
BootstrapAdmin == "a@x"

ServerInit ==
    /\ schema \in Schemas
    /\ authUsers = {}
    /\ users = {UserRow(1, BootstrapAdmin, TRUE, "admin", schema.isAdminColumn)}
    /\ subjects = {}
    /\ chapters = {}
    /\ notes = {}
    /\ videos = {}
    /\ storage = {}
    /\ seq = [users |-> 1, subjects |-> 0, chapters |-> 0, notes |-> 0,
              videos |-> 0, files |-> 0]

\* The routes: '/', '/admin' and '/subjects/:subjectId'.
Home == [path |-> "/", id |-> 0]
AdminRoute == [path |-> "/admin", id |-> 0]
SubjectRoute(n) == [path |-> "/subjects", id |-> n]
Routes == {Home, AdminRoute} \cup {SubjectRoute(n) : n \in 1..MaxSubjects}

\* useState initial values of the three pages.  A nullable row (userData,
\* SubjectDetail's subject) is a set of at most one row: {} is null.
DashInit == [subjects |-> {}]
SdInit == [subject |-> {}, chapters |-> {}, notes |-> {}, videos |-> {}, loading |-> TRUE]
AdInit == [users |-> {}, subjects |-> {}, chapters |-> {}, notes |-> {},
           videos |-> {}, loading |-> TRUE]

\* A browser that has just loaded '/' with nobody signed in.
ClientInit ==
    /\ session = Null
    /\ userData = {}
    /\ fetches = {}
    /\ route = Home
    /\ landing = Home
    /\ dirty = FALSE
    /\ dash = DashInit
    /\ sd = SdInit
    /\ ad = AdInit
    /\ toast = "none"

Init == ServerInit /\ ClientInit

Next ==
    \/ \E e \in Emails : ApiSignUp(e)
    \/ \E c \in Callers : ApiInsertSubject(c)
    \/ \E c \in Callers, s \in 1..MaxSubjects : ApiInsertChapter(c, s)
    \/ \E c \in Callers : ApiUpload(c)
    \/ \E c \in Callers, ch \in 1..MaxChapters, k \in 1..MaxFiles : ApiInsertNote(c, ch, k)
    \/ \E c \in Callers, ch \in 1..MaxChapters : ApiInsertVideo(c, ch)
    \/ \E c \in Callers, s \in 1..MaxSubjects : ApiDeleteSubject(c, s)
    \/ \E c \in Callers, ch \in 1..MaxChapters : ApiDeleteChapter(c, ch)
    \/ \E c \in Callers, n \in 1..MaxNotes : ApiDeleteNote(c, n)
    \/ \E c \in Callers, v \in 1..MaxVideos : ApiDeleteVideo(c, v)
    \/ \E c \in Callers, r \in users, f \in UserFields :
          \E v \in FieldValues(f) : ApiUpdateUser(c, r.id, f, v)
    \/ \E c \in Callers, e \in Emails, a \in BOOLEAN, ro \in {"user", "admin"} :
          ApiInsertUser(c, e, a, ro)
    \/ \E c \in Callers, r \in users : ApiDeleteUser(c, r.id)

Spec == Init /\ [][Next]_vars

\* ======================================================== the browser
\* The JWT the supabase client attaches to a request.
Jwt == IF session = Null THEN Anon ELSE session

\* Index renders <Dashboard/> when a user is signed in, SubjectDetail and
\* Admin are routed pages: the pages that have a useEffect to run.
HasEffect(r, sess) == r # Home \/ sess # Null

\* What AuthProvider hands to useAuth().
AuthContextValue == {"user", "session", "userData", "loading", "signOut"}

\* A request may also fail in transit.  FetchFails: which read of a fetch
\* fails (0: none, k: the k-th).
FetchFails == 0..5

\* --------------------------------------------------------- AuthContext
\* fetchUserData: .from('users').select('*').eq('email', e).single();
\* no row is PGRST116 and yields data = null, which is stored.  The call runs
\* right after the auth event that scheduled it, under that event's JWT.
FetchedUserData(e) == {r \in SelectUsers(e) : r.email = e}

\* The response of a scheduled fetchUserData arrives.
FetchUserDataDone(e, failed) ==
    /\ ~dirty
    /\ e \in fetches
    /\ fetches' = fetches \ {e}
    /\ IF failed
       THEN UNCHANGED <<userData, dirty>>
       ELSE /\ userData' = FetchedUserData(e)
            /\ dirty' = (HasEffect(route, session) /\ (userData' # {} \/ userData # {}))
    /\ UNCHANGED <<serverVars, session, route, landing, dash, sd, ad, toast>>

\* onAuthStateChange fires for the running session (token refreshed, tab
\* focused): fetchUserData is scheduled again.
AuthEvent ==
    /\ ~dirty
    /\ session # Null
    /\ fetches' = fetches \cup {session}
    /\ UNCHANGED <<serverVars, session, userData, route, landing, dirty, dash, sd, ad, toast>>

\* onAuthStateChange(SIGNED_OUT, null): setSession(null), setUserData(null).
SignOut ==
    /\ ~dirty
    /\ session # Null
    /\ session' = Null
    /\ userData' = {}
    /\ dash' = DashInit
    /\ dirty' = (route # Home /\ userData # {})
    /\ UNCHANGED <<serverVars, fetches, route, landing, sd, ad, toast>>

\* The document is loaded at URL r (typed, or window.location.href = r):
\* AuthProvider starts with userData = null, restores the session and
\* schedules fetchUserData; the routed page mounts.
PageLoad(r) ==
    /\ ~dirty
    /\ userData' = {}
    /\ fetches' = IF session = Null THEN {} ELSE {session}
    /\ route' = r
    /\ landing' = r
    /\ dirty' = HasEffect(r, session)
    /\ dash' = DashInit
    /\ sd' = SdInit
    /\ ad' = AdInit
    /\ toast' = "none"
    /\ UNCHANGED <<serverVars, session>>

\* The magic link is followed: the auth provider creates the auth user on
\* first sign-in (firing on_auth_user_created) and the document loads at
\* '/' with the new session.
SignIn(e) ==
    /\ ~dirty
    /\ session = Null
    /\ IF e \in authUsers THEN UNCHANGED serverVars ELSE SignUp(e)
    /\ session' = e
    /\ userData' = {}
    /\ fetches' = {e}
    /\ route' = Home
    /\ landing' = Home
    /\ dirty' = TRUE
    /\ dash' = DashInit
    /\ sd' = SdInit
    /\ ad' = AdInit
    /\ toast' = "none"

\* The router shows another entry of this document's history without a
\* reload: navigate('/') of a button, or Back/Forward to the landing URL.
RouteChange(r) ==
    /\ ~dirty
    /\ r \in {Home, landing}
    /\ r # route
    /\ route' = r
    /\ dirty' = HasEffect(r, session)
    /\ dash' = DashInit
    /\ sd' = SdInit
    /\ ad' = AdInit
    /\ UNCHANGED <<serverVars, session, userData, fetches, landing, toast>>

\* ----------------------------------------------------------- Dashboard
\* fetchContent: subjects, .order('name'); an error is only logged.
fetchContent_mut_dropped(failed) == dash

fetchContent(failed) ==
    IF failed THEN dash ELSE [dash EXCEPT !.subjects = SelectSubjects(Jwt)]

\* useEffect(..., [userData]) of Dashboard.
DashboardEffect(failed) ==
    /\ dirty
    /\ route = Home
    /\ session # Null
    /\ dash' = IF \E d \in userData : d.access THEN fetchContent(failed) ELSE dash
    /\ dirty' = FALSE
    /\ UNCHANGED <<serverVars, session, userData, fetches, route, landing, sd, ad, toast>>

\* What the Dashboard renders: 'Access Pending' unless userData.access.
VisibleSubjects ==
    IF route = Home /\ session # Null /\ (\E d \in userData : d.access)
    THEN dash.subjects ELSE {}

\* -------------------------------------------------------- SubjectDetail
fetchSubjectData(subjectId, f) ==
    LET subj == {x \in SelectSubjects(Jwt) : x.id = subjectId}
        chs == {c \in SelectChapters(Jwt) : c.subject_id = subjectId}
        chapterIds == Ids(chs)
        ns == {n \in SelectNotes(Jwt) : n.chapter_id \in chapterIds}
        vs == {v \in SelectVideos(Jwt) : v.chapter_id \in chapterIds}
    IN  IF f = 1 \/ subj = {}
        THEN [sd EXCEPT !.loading = FALSE]
        ELSE IF f = 2
        THEN [sd EXCEPT !.subject = subj, !.loading = FALSE]
        ELSE IF chapterIds = {} \/ f = 3
        THEN [sd EXCEPT !.subject = subj, !.chapters = chs, !.loading = FALSE]
        ELSE IF f = 4
        THEN [sd EXCEPT !.subject = subj, !.chapters = chs, !.notes = ns, !.loading = FALSE]
        ELSE [subject |-> subj, chapters |-> chs, notes |-> ns, videos |-> vs,
              loading |-> FALSE]

getChapterNotes_mut_all(chapterId) == sd.notes

getChapterNotes(chapterId) == {n \in sd.notes : n.chapter_id = chapterId}

getChapterVideos(chapterId) == {v \in sd.videos : v.chapter_id = chapterId}

\* The gate of SubjectDetail's and of Admin's effect sends the browser to '/'.
NavigateHome ==
    /\ route' = Home
    /\ dirty' = HasEffect(Home, session)
    /\ dash' = DashInit
    /\ sd' = SdInit
    /\ ad' = AdInit

\* useEffect(..., [subjectId, userData]) of SubjectDetail.
SubjectDetailEffect(f) ==
    /\ dirty
    /\ route.path = "/subjects"
    /\ IF ~\E d \in userData : d.access
       THEN NavigateHome
       ELSE /\ sd' = fetchSubjectData(route.id, f)
            /\ dirty' = FALSE
            /\ UNCHANGED <<route, dash, ad>>
    /\ UNCHANGED <<serverVars, session, userData, fetches, landing, toast>>

\* ---------------------------------------------------------------- Admin
\* fetchData that empties every list when a read fails.
fetchData_mut_clear(f) ==
    IF f # 0 THEN [users |-> {}, subjects |-> {}, chapters |-> {}, notes |-> {},
                   videos |-> {}, loading |-> FALSE]
    ELSE [users |-> SelectUsers(Jwt)', subjects |-> SelectSubjects(Jwt)',
          chapters |-> SelectChapters(Jwt)', notes |-> SelectNotes(Jwt)',
          videos |-> SelectVideos(Jwt)', loading |-> FALSE]

\* fetchData: users, subjects, chapters, notes, videos, in that order; the
\* first failing read throws.  Reads the tables as they are after the step.
fetchData(f) ==
    IF f = 1 THEN [ad EXCEPT !.loading = FALSE]
    ELSE IF f = 2 THEN [ad EXCEPT !.users = SelectUsers(Jwt)', !.loading = FALSE]
    ELSE IF f = 3 THEN [ad EXCEPT !.users = SelectUsers(Jwt)',
                                  !.subjects = SelectSubjects(Jwt)', !.loading = FALSE]
    ELSE IF f = 4 THEN [ad EXCEPT !.users = SelectUsers(Jwt)',
                                  !.subjects = SelectSubjects(Jwt)',
                                  !.chapters = SelectChapters(Jwt)', !.loading = FALSE]
    ELSE IF f = 5 THEN [ad EXCEPT !.users = SelectUsers(Jwt)',
                                  !.subjects = SelectSubjects(Jwt)',
                                  !.chapters = SelectChapters(Jwt)',
                                  !.notes = SelectNotes(Jwt)', !.loading = FALSE]
    ELSE [users |-> SelectUsers(Jwt)', subjects |-> SelectSubjects(Jwt)',
          chapters |-> SelectChapters(Jwt)', notes |-> SelectNotes(Jwt)',
          videos |-> SelectVideos(Jwt)', loading |-> FALSE]

\* The toast left by an operation that ends with fetchData().
AfterFetchToast(f, t) == IF f = 0 THEN t ELSE "error"

\* if (!userData) navigate('/'); if (!userData.is_admin) navigate('/').
AdminGate == \E d \in userData : d.is_admin

\* useEffect(..., [userData, navigate]) of Admin.
AdminEffect(f) ==
    /\ dirty
    /\ route = AdminRoute
    /\ UNCHANGED <<serverVars, session, userData, fetches, landing>>
    /\ IF ~AdminGate
       THEN NavigateHome /\ UNCHANGED toast
       ELSE /\ ad' = fetchData(f)
            /\ toast' = AfterFetchToast(f, toast)
            /\ dirty' = FALSE
            /\ UNCHANGED <<route, dash, sd>>

\* The Admin page is rendered and takes clicks.
AdminReady == ~dirty /\ route = AdminRoute /\ ~ad.loading

\* toggleUserAccess(user.id, user.access) of a row of the users list.
toggleUserAccess(userId, currentAccess, failed) ==
    /\ AdminReady
    /\ \E u \in ad.users : u.id = userId /\ u.access = currentAccess
    /\ IF failed
       THEN UNCHANGED <<users, ad>> /\ toast' = "error"
       ELSE /\ UpdateUser(Jwt, userId, "access", ~currentAccess)
            /\ ad' = [ad EXCEPT !.users =
                        {IF u.id = userId THEN [u EXCEPT !.access = ~currentAccess] ELSE u
                           : u \in ad.users}]
            /\ toast' = "success"
    /\ UNCHANGED <<schema, authUsers, subjects, chapters, notes, videos, storage, seq>>
    /\ UNCHANGED <<session, userData, fetches, route, landing, dirty, dash, sd>>

\* toggleUserAdmin(user.id, user.is_admin): update({ is_admin: !current }).
\* After a change of the caller's own row it calls refetchUserData(), which
\* useAuth() does not provide: the call throws and the catch block runs.
toggleUserAdmin(userId, currentIsAdmin, failed) ==
    /\ AdminReady
    /\ \E u \in ad.users : u.id = userId /\ u.is_admin = currentIsAdmin
    /\ UNCHANGED <<schema, authUsers, subjects, chapters, notes, videos, storage, seq>>
    /\ UNCHANGED <<session, fetches, landing>>
    /\ IF failed \/ UpdateUserError("is_admin")
       THEN UNCHANGED <<users, ad, userData, route, dirty, dash, sd>> /\ toast' = "error"
       ELSE /\ UpdateUser(Jwt, userId, "is_admin", ~currentIsAdmin)
            /\ ad' = [ad EXCEPT !.users =
                        {IF u.id = userId THEN [u EXCEPT !.is_admin = ~currentIsAdmin] ELSE u
                           : u \in ad.users}]
            /\ IF \E d \in userData : d.id = userId
               THEN IF "refetchUserData" \in AuthContextValue
                    THEN /\ userData' = FetchedUserData(session)'
                         /\ toast' = "success"
                         /\ IF currentIsAdmin
                            THEN route' = Home /\ dirty' = TRUE /\ dash' = DashInit
                                 /\ sd' = SdInit
                            ELSE dirty' = TRUE /\ UNCHANGED <<route, dash, sd>>
                    ELSE UNCHANGED <<userData, route, dirty, dash, sd>> /\ toast' = "error"
               ELSE UNCHANGED <<userData, route, dirty, dash, sd>> /\ toast' = "success"

\* createSubject: name required, insert, then fetchData().
createSubject(nameOk, f) ==
    /\ AdminReady
    /\ seq.subjects < MaxSubjects
    /\ UNCHANGED <<schema, authUsers, users, chapters, notes, videos, storage>>
    /\ UNCHANGED <<session, userData, fetches, route, landing, dirty, dash, sd>>
    /\ IF ~nameOk
       THEN UNCHANGED <<subjects, seq, ad>> /\ toast' = "error"
       ELSE /\ InsertSubject(Jwt)
            /\ IF ContentWritePolicy(Jwt)
               THEN ad' = fetchData(f) /\ toast' = AfterFetchToast(f, "success")
               ELSE UNCHANGED ad /\ toast' = "error"

\* createChapter: title and subject required, insert, then fetchData().
createChapter(titleOk, subjectId, f) ==
    /\ AdminReady
    /\ seq.chapters < MaxChapters
    /\ subjectId \in Ids(ad.subjects) \cup {0}
    /\ UNCHANGED <<schema, authUsers, users, subjects, notes, videos, storage>>
    /\ UNCHANGED <<session, userData, fetches, route, landing, dirty, dash, sd>>
    /\ IF ~titleOk \/ subjectId = 0
       THEN UNCHANGED <<chapters, seq, ad>> /\ toast' = "error"
       ELSE /\ InsertChapter(Jwt, subjectId)
            /\ IF InsertChapterOk(Jwt, subjectId)
               THEN ad' = fetchData(f) /\ toast' = AfterFetchToast(f, "success")
               ELSE UNCHANGED ad /\ toast' = "error"

\* uploadNote with `if (uploadError) throw uploadError` left out.
uploadNote_mut_nothrow(fieldsOk, chapterId, failed, f) ==
    /\ AdminReady
    /\ seq.files < MaxFiles /\ seq.notes < MaxNotes
    /\ chapterId \in Ids(ad.chapters) \cup {0}
    /\ UNCHANGED <<schema, authUsers, users, subjects, chapters, videos>>
    /\ UNCHANGED <<session, userData, fetches, route, landing, dirty, dash, sd>>
    /\ LET key == seq.files + 1
           uploaded == fieldsOk /\ chapterId # 0 /\ failed # "upload"
                       /\ StorageInsertPolicy(Jwt)
           inserted == fieldsOk /\ chapterId # 0 /\ failed # "insert"
                       /\ InsertNoteOk(Jwt, chapterId)
       IN  /\ storage' = IF uploaded THEN storage \cup {key} ELSE storage
           /\ notes' = IF inserted
                       THEN notes \cup {[id |-> seq.notes + 1, chapter_id |-> chapterId,
                                         pdf_url |-> key]}
                       ELSE notes
           /\ seq' = [seq EXCEPT !.files = IF uploaded THEN @ + 1 ELSE @,
                                 !.notes = IF inserted THEN @ + 1 ELSE @]
           /\ IF inserted
              THEN ad' = fetchData(f) /\ toast' = AfterFetchToast(f, "success")
              ELSE UNCHANGED ad /\ toast' = "error"

\* uploadNote: title, chapter and file required; storage upload, then the
\* notes insert with the uploaded object's public URL, then fetchData().
\* failed: "none", or the request lost in transit ("upload", "insert").
uploadNote(fieldsOk, chapterId, failed, f) ==
    /\ AdminReady
    /\ seq.files < MaxFiles /\ seq.notes < MaxNotes
    /\ chapterId \in Ids(ad.chapters) \cup {0}
    /\ UNCHANGED <<schema, authUsers, users, subjects, chapters, videos>>
    /\ UNCHANGED <<session, userData, fetches, route, landing, dirty, dash, sd>>
    /\ LET key == seq.files + 1
           uploaded == fieldsOk /\ chapterId # 0 /\ failed # "upload"
                       /\ StorageInsertPolicy(Jwt)
           inserted == uploaded /\ failed # "insert" /\ InsertNoteOk(Jwt, chapterId)
       IN  /\ storage' = IF uploaded THEN storage \cup {key} ELSE storage
           /\ notes' = IF inserted
                       THEN notes \cup {[id |-> seq.notes + 1, chapter_id |-> chapterId,
                                         pdf_url |-> key]}
                       ELSE notes
           /\ seq' = [seq EXCEPT !.files = IF uploaded THEN @ + 1 ELSE @,
                                 !.notes = IF inserted THEN @ + 1 ELSE @]
           /\ IF inserted
              THEN ad' = fetchData(f) /\ toast' = AfterFetchToast(f, "success")
              ELSE UNCHANGED ad /\ toast' = "error"

\* createVideo: title, URL and chapter required, insert, then fetchData().
createVideo(fieldsOk, chapterId, f) ==
    /\ AdminReady
    /\ seq.videos < MaxVideos
    /\ chapterId \in Ids(ad.chapters) \cup {0}
    /\ UNCHANGED <<schema, authUsers, users, subjects, chapters, notes, storage>>
    /\ UNCHANGED <<session, userData, fetches, route, landing, dirty, dash, sd>>
    /\ IF ~fieldsOk \/ chapterId = 0
       THEN UNCHANGED <<videos, seq, ad>> /\ toast' = "error"
       ELSE /\ InsertVideo(Jwt, chapterId)
            /\ IF InsertVideoOk(Jwt, chapterId)
               THEN ad' = fetchData(f) /\ toast' = AfterFetchToast(f, "success")
               ELSE UNCHANGED ad /\ toast' = "error"

\* deleteSubject / deleteChapter / deleteNote / deleteVideo of a listed row:
\* a delete that removes no row is no error; then fetchData().
deleteSubject(subjectId, f) ==
    /\ AdminReady
    /\ subjectId \in Ids(ad.subjects)
    /\ DeleteSubject(Jwt, subjectId)
    /\ UNCHANGED <<schema, authUsers, users, storage, seq>>
    /\ UNCHANGED <<session, userData, fetches, route, landing, dirty, dash, sd>>
    /\ ad' = fetchData(f)
    /\ toast' = AfterFetchToast(f, "success")

deleteChapter(chapterId, f) ==
    /\ AdminReady
    /\ chapterId \in Ids(ad.chapters)
    /\ DeleteChapter(Jwt, chapterId)
    /\ UNCHANGED <<schema, authUsers, users, subjects, storage, seq>>
    /\ UNCHANGED <<session, userData, fetches, route, landing, dirty, dash, sd>>
    /\ ad' = fetchData(f)
    /\ toast' = AfterFetchToast(f, "success")

\* deleteNote that also removes the note's file from the bucket.
deleteNote_mut_remove(noteId, f) ==
    /\ AdminReady
    /\ noteId \in Ids(ad.notes)
    /\ DeleteNote(Jwt, noteId)
    /\ storage' = storage \ {n.pdf_url : n \in {x \in notes : x.id = noteId}}
    /\ UNCHANGED <<schema, authUsers, users, subjects, chapters, videos, seq>>
    /\ UNCHANGED <<session, userData, fetches, route, landing, dirty, dash, sd>>
    /\ ad' = fetchData(f)
    /\ toast' = AfterFetchToast(f, "success")

deleteNote(noteId, f) ==
    /\ AdminReady
    /\ noteId \in Ids(ad.notes)
    /\ DeleteNote(Jwt, noteId)
    /\ UNCHANGED <<schema, authUsers, users, subjects, chapters, videos, storage, seq>>
    /\ UNCHANGED <<session, userData, fetches, route, landing, dirty, dash, sd>>
    /\ ad' = fetchData(f)
    /\ toast' = AfterFetchToast(f, "success")

deleteVideo(videoId, f) ==
    /\ AdminReady
    /\ videoId \in Ids(ad.videos)
    /\ DeleteVideo(Jwt, videoId)
    /\ UNCHANGED <<schema, authUsers, users, subjects, chapters, notes, storage, seq>>
    /\ UNCHANGED <<session, userData, fetches, route, landing, dirty, dash, sd>>
    /\ ad' = fetchData(f)
    /\ toast' = AfterFetchToast(f, "success")

\* ------------------------------------------- the browser of a reader
\* The pages a reader uses ('/' and '/subjects/:subjectId') against a
\* database that admins have filled before: every id has been handed out,
\* and any rows that satisfy the foreign keys may be left.  Admins working
\* elsewhere reach this browser only through the tables.
ViewRoutes == {Home} \cup {SubjectRoute(n) : n \in 1..MaxSubjects}

OneRowPerId(S) == \A x \in S, y \in S : x.id = y.id => x = y

InitView ==
    /\ schema \in Schemas
    /\ authUsers = Emails
    /\ \E aa \in BOOLEAN, ua \in BOOLEAN :
          users = {UserRow(1, BootstrapAdmin, aa, "admin", schema.isAdminColumn),
                   UserRow(2, "u@x", ua, "user", FALSE)}
    /\ subjects \in SUBSET {[id |-> n] : n \in 1..MaxSubjects}
    /\ chapters \in {C \in SUBSET [id : 1..MaxChapters, subject_id : Ids(subjects)] :
                        OneRowPerId(C)}
    /\ notes \in {N \in SUBSET {[id |-> n, chapter_id |-> c, pdf_url |-> n] :
                                   n \in 1..MaxNotes, c \in Ids(chapters)} :
                     OneRowPerId(N)}
    /\ videos \in {V \in SUBSET [id : 1..MaxVideos, chapter_id : Ids(chapters)] :
                      OneRowPerId(V) /\ (schema.videosFk = "videos" => V = {})}
    /\ storage = 1..MaxFiles
    /\ seq = [users |-> 2, subjects |-> MaxSubjects, chapters |-> MaxChapters,
              notes |-> MaxNotes, videos |-> MaxVideos, files |-> MaxFiles]
    /\ ClientInit

Admins == {c \in authUsers : is_admin(c)}

NextView ==
    \/ \E e \in Emails : SignIn(e)
    \/ SignOut
    \/ AuthEvent
    \/ \E e \in Emails, failed \in BOOLEAN : FetchUserDataDone(e, failed)
    \/ \E r \in ViewRoutes : PageLoad(r)
    \/ \E r \in ViewRoutes : RouteChange(r)
    \/ \E failed \in BOOLEAN : DashboardEffect(failed)
    \/ \E f \in 0..4 : SubjectDetailEffect(f)
    \/ \E c \in Admins, s \in 1..MaxSubjects : ApiDeleteSubject(c, s)
    \/ \E c \in Admins, ch \in 1..MaxChapters : ApiDeleteChapter(c, ch)
    \/ \E c \in Admins, r \in users, a \in BOOLEAN : ApiUpdateUser(c, r.id, "access", a)

SpecView == InitView /\ [][NextView]_vars

\* --------------------------------------------- the browser of an admin
\* The pages an admin uses ('/' and '/admin') for managing users, starting
\* from the empty database of Init; creating and deleting subjects shows
\* what the data layer lets the signed-in user write.
AdminRoutes == {Home, AdminRoute}

NextAdmin ==
    \/ \E e \in Emails : SignIn(e)
    \/ SignOut
    \/ AuthEvent
    \/ \E e \in Emails, failed \in BOOLEAN : FetchUserDataDone(e, failed)
    \/ \E r \in AdminRoutes : PageLoad(r)
    \/ \E r \in AdminRoutes : RouteChange(r)
    \/ \E failed \in BOOLEAN : DashboardEffect(failed)
    \/ \E f \in FetchFails : AdminEffect(f)
    \/ \E u \in ad.users, failed \in BOOLEAN : toggleUserAccess(u.id, u.access, failed)
    \/ \E u \in ad.users, failed \in BOOLEAN : toggleUserAdmin(u.id, u.is_admin, failed)
    \/ \E ok \in BOOLEAN, f \in FetchFails : createSubject(ok, f)
    \/ \E s \in 1..MaxSubjects, f \in FetchFails : deleteSubject(s, f)

SpecAdmin == Init /\ [][NextAdmin]_vars

\* ------------------------------------ the browser of a content editor
\* The Admin page used for the content tables by the bootstrap admin.
\* What is typed into a form's text field: a sequence of characters.
FormTexts == {<<>>, <<" ">>, <<"x">>, <<" ", "x", " ">>}

\* String.prototype.trim(): white space removed from both ends.
RECURSIVE trim(_)
trim_mut_none(text) == text

trim(text) ==
    IF text = <<>> THEN <<>>
    ELSE IF Head(text) = " " THEN trim(Tail(text))
    ELSE IF text[Len(text)] = " " THEN trim(SubSeq(text, 1, Len(text) - 1))
    ELSE text

\* !field.trim() of the forms' validation: the empty string is falsy.
Filled(text) == trim(text) # <<>>

\* newNote.file: null until a file is picked.
FormFiles == {Null, "pdf"}

NextContent ==
    \/ SignIn(BootstrapAdmin)
    \/ \E failed \in BOOLEAN : FetchUserDataDone(BootstrapAdmin, failed)
    \/ PageLoad(AdminRoute)
    \/ RouteChange(AdminRoute)
    \/ \E failed \in BOOLEAN : DashboardEffect(failed)
    \/ \E f \in FetchFails : AdminEffect(f)
    \/ \E name \in FormTexts, f \in FetchFails : createSubject(Filled(name), f)
    \/ \E title \in FormTexts, s \in 0..MaxSubjects, f \in FetchFails :
          createChapter(Filled(title), s, f)
    \/ \E title \in FormTexts, file \in FormFiles, ch \in 0..MaxChapters,
          failed \in {"none", "upload", "insert"}, f \in FetchFails :
          uploadNote(Filled(title) /\ file # Null, ch, failed, f)
    \/ \E title \in FormTexts, url \in FormTexts, ch \in 0..MaxChapters, f \in FetchFails :
          createVideo(Filled(title) /\ Filled(url), ch, f)
    \/ \E s \in 1..MaxSubjects, f \in FetchFails : deleteSubject(s, f)
    \/ \E ch \in 1..MaxChapters, f \in FetchFails : deleteChapter(ch, f)
    \/ \E n \in 1..MaxNotes, f \in FetchFails : deleteNote(n, f)
    \/ \E v \in 1..MaxVideos, f \in FetchFails : deleteVideo(v, f)

SpecContent == Init /\ [][NextContent]_vars

\* -------------------------------------------------- the reader scenario
\* An admin has created one subject, one chapter under it and one note
\* under that chapter; the reader has signed up and has no access yet.  The
\* reader uses the browser while the admin may grant access.
ScenarioUser == "u@x"

InitScenario ==
    /\ schema \in Schemas
    /\ authUsers = Emails
    /\ users = {UserRow(1, BootstrapAdmin, TRUE, "admin", schema.isAdminColumn),
                UserRow(2, ScenarioUser, FALSE, "user", FALSE)}
    /\ subjects = {[id |-> 1]}
    /\ chapters = {[id |-> 1, subject_id |-> 1]}
    /\ notes = {[id |-> 1, chapter_id |-> 1, pdf_url |-> 1]}
    /\ videos = {}
    /\ storage = {1}
    /\ seq = [users |-> 2, subjects |-> 1, chapters |-> 1, notes |-> 1,
              videos |-> 0, files |-> 1]
    /\ ClientInit

NextScenario ==
    \/ SignIn(ScenarioUser)
    \/ SignOut
    \/ AuthEvent
    \/ \E failed \in BOOLEAN : FetchUserDataDone(ScenarioUser, failed)
    \/ \E r \in ViewRoutes : PageLoad(r)
    \/ \E r \in ViewRoutes : RouteChange(r)
    \/ \E failed \in BOOLEAN : DashboardEffect(failed)
    \/ \E f \in 0..4 : SubjectDetailEffect(f)
    \/ \E r \in users : r.email = ScenarioUser /\ ApiUpdateUser(BootstrapAdmin, r.id, "access", TRUE)

SpecScenario == InitScenario /\ [][NextScenario]_vars

\* ================================================================ claims
ContentRows == <<subjects, chapters, notes, videos>>

ReadsNothing(c) ==
    /\ SelectSubjects(c) = {}
    /\ SelectChapters(c) = {}
    /\ SelectNotes(c) = {}
    /\ SelectVideos(c) = {}

ContentWriteBy(c) ==
    \/ ApiInsertSubject(c)
    \/ \E s \in 1..MaxSubjects : ApiInsertChapter(c, s) \/ ApiDeleteSubject(c, s)
    \/ \E ch \in 1..MaxChapters :
          \/ ApiInsertVideo(c, ch)
          \/ ApiDeleteChapter(c, ch)
          \/ \E k \in 1..MaxFiles : ApiInsertNote(c, ch, k)
    \/ \E n \in 1..MaxNotes : ApiDeleteNote(c, n)
    \/ \E v \in 1..MaxVideos : ApiDeleteVideo(c, v)

UsersUpdateBy(c) ==
    \E r \in users, f \in UserFields : \E v \in FieldValues(f) : ApiUpdateUser(c, r.id, f, v)

NotAdminRow(c) == ~\E r \in users : r.email = c /\ r.role = "admin"

\* C2: an insert or delete on subjects, chapters, notes or videos, or an
\* update of a users row, sent by a caller whose own users row does not say
\* role = 'admin' at that time leaves every stored row as it was.
C2_WritesOnlyByAdmin ==
    [][\A c \in Callers :
          (NotAdminRow(c) /\ (ContentWriteBy(c) \/ UsersUpdateBy(c)))
             => UNCHANGED <<ContentRows, users>>]_vars

\* C2 witness: content written by an admin is stored while a signed-up
\* caller with access but without the admin role could send writes.
C2_Witness ==
    /\ subjects # {} /\ chapters # {} /\ notes # {}
    /\ \E r \in users : r.email \in authUsers /\ r.role # "admin" /\ r.access

NoOrphans ==
    /\ \A ch \in chapters : ch.subject_id \in Ids(subjects)
    /\ \A n \in notes : n.chapter_id \in Ids(chapters)
    /\ \A v \in videos : v.chapter_id \in Ids(chapters)

CascadeStep ==
    /\ \A s \in subjects \ subjects' : \A ch \in chapters :
          ch.subject_id = s.id =>
             /\ ch \notin chapters'
             /\ \A n \in notes : n.chapter_id = ch.id => n \notin notes'
             /\ \A v \in videos : v.chapter_id = ch.id => v \notin videos'
    /\ \A ch \in chapters \ chapters' :
          /\ \A n \in notes : n.chapter_id = ch.id => n \notin notes'
          /\ \A v \in videos : v.chapter_id = ch.id => v \notin videos'

\* C5: a step that removes a subject removes its chapters and their notes
\* and videos, a step that removes a chapter removes its notes and videos,
\* and in every state no chapter references a missing subject and no note
\* or video references a missing chapter.
C5_CascadeDelete == [][CascadeStep]_vars /\ []NoOrphans

\* C5 witness: the only subject was deleted after a chapter and a note had
\* been created under it, and nothing is left.
C5_Witness ==
    /\ seq.subjects = 1 /\ seq.chapters >= 1 /\ seq.notes = 1
    /\ subjects = {} /\ chapters = {} /\ notes = {}

OneUserRow(e) == Cardinality({r \in users : r.email = e}) = 1

\* C9: every e-mail that has authenticated has exactly one users row in
\* every later state, and no step removes a users row.
C9_OneUserPerEmail ==
    /\ [](\A e \in authUsers : OneUserRow(e))
    /\ [][\A r \in users : \E r2 \in users' : r2.id = r.id /\ r2.email = r.email]_vars

\* C9 witness: both principals have signed up, one of them over a users row
\* that already existed, and each has one row.
C9_Witness ==
    /\ authUsers = Emails
    /\ seq.users = Cardinality(Emails)
    /\ \A e \in Emails : OneUserRow(e)

FlagsChanged(r, r2) ==
    r2.id = r.id /\ (r2.access # r.access \/ r2.role # r.role \/ r2.is_admin # r.is_admin)

\* C10: the access, role and is_admin fields of an existing users row change
\* only in a step that is an update sent by a caller whose users row says
\* role = 'admin' at that time; an update sent by any other caller, on its
\* own row or on another, changes no users row.
C10_FlagsOnlyByAdmin ==
    [][/\ \A r \in users, r2 \in users' :
             FlagsChanged(r, r2) => \E c \in Callers : ~NotAdminRow(c) /\ UsersUpdateBy(c)
       /\ \A c \in Callers : (NotAdminRow(c) /\ UsersUpdateBy(c)) => UNCHANGED users]_vars

\* C10 witness: an admin's update has granted access to a user who is not
\* an admin and who therefore could try to change the row.
C10_Witness ==
    \E r \in users : r.email \in authUsers /\ r.email # BootstrapAdmin
                       /\ r.access /\ r.role = "user"

\* The signed-in user's demotion of his own row took effect in this step.
SelfDemotion ==
    \E d \in userData :
        /\ d.is_admin
        /\ toggleUserAdmin(d.id, TRUE, FALSE)
        /\ \E r \in users' : r.id = d.id /\ ~r.is_admin

\* C3 (as stated): when the acting admin switches his own admin flag off
\* with toggleUserAdmin, his users row is fetched again and the Admin page
\* is left, so that its operations are no longer offered to him.
C3_SelfDemotionRevokes ==
    [][SelfDemotion => (userData' = FetchedUserData(session)' /\ ~AdminGate' /\ route' = Home)]_vars

\* A toggleUserAdmin of the listed row u was accepted and changed the table.
AdminSwitched(u) == toggleUserAdmin(u.id, u.is_admin, FALSE) /\ users' # users

\* C4 (as stated): after toggleUserAdmin has promoted a user the server's
\* policies admit that user's content and user-management writes, and after
\* it has demoted a user they refuse them.
C4_SwitchIsServerDesignation ==
    [][\A u \in ad.users : AdminSwitched(u) =>
          \A r \in users' : r.id = u.id =>
             /\ ContentWritePolicy(r.email)' <=> ~u.is_admin
             /\ UsersUpdatePolicy(r.email)' <=> ~u.is_admin]_vars

\* A run of SubjectDetail's effect in which the gate passes, the subject
\* exists and every read is answered.
FetchedSubject ==
    /\ SubjectDetailEffect(0)
    /\ \E d \in userData : d.access
    /\ \E x \in SelectSubjects(Jwt) : x.id = route.id

\* C6: after the subject page has fetched its data, for every chapter it
\* shows, getChapterNotes and getChapterVideos are exactly the stored notes
\* and videos whose chapter_id is that chapter's id.
C6_GroupingExact ==
    [][FetchedSubject =>
          \A ch \in sd'.chapters :
             /\ getChapterNotes(ch.id)' = {n \in notes' : n.chapter_id = ch.id}
             /\ getChapterVideos(ch.id)' = {v \in videos' : v.chapter_id = ch.id}]_vars

\* C6 witness: the subject page shows two chapters of one subject, a note
\* and a video, as fetched from the tables.
C6_Witness ==
    /\ route.path = "/subjects" /\ ~dirty /\ sd.subject # {}
    /\ Cardinality(sd.chapters) = 2
    /\ sd.notes # {} /\ sd.notes = notes
    /\ sd.videos # {} /\ sd.videos = videos

\* What the subject page renders of the subject: nothing before the fetch
\* and nothing when the subject was not found.
\* The subject page renders 'Subject Not Found': not loading, no subject.
SubjectNotFound == route.path = "/subjects" /\ ~sd.loading /\ sd.subject = {}

ShownChapters == IF route.path = "/subjects" /\ ~sd.loading /\ sd.subject # {}
                 THEN sd.chapters ELSE {}

\* C7: in the scenario (one subject, one chapter under it, one note under
\* that chapter) the reader sees no subject and no chapter while the stored
\* access flag is FALSE; once it is TRUE, a Dashboard fetch that is answered
\* shows exactly the one subject, and a subject-page fetch that is answered
\* shows exactly the one chapter with exactly the one note under it.
C7_Scenario ==
    /\ [](~user_has_access(ScenarioUser) => (VisibleSubjects = {} /\ ShownChapters = {}))
    /\ [][(DashboardEffect(FALSE) /\ user_has_access(ScenarioUser)
             /\ \E d \in userData : d.access)
          => (VisibleSubjects' = subjects /\ Cardinality(VisibleSubjects') = 1)]_vars
    /\ [][(FetchedSubject /\ user_has_access(ScenarioUser))
          => /\ ShownChapters' = chapters /\ Cardinality(ShownChapters') = 1
             /\ \A ch \in ShownChapters' :
                   getChapterNotes(ch.id)' = notes /\ Cardinality(notes) = 1]_vars

\* C7 witness: the reader, granted access, has the subject's page open
\* with the chapter and its note.
C7_Witness ==
    /\ session = ScenarioUser /\ user_has_access(ScenarioUser)
    /\ sd.subject = subjects
    /\ ShownChapters = chapters
    /\ \E ch \in ShownChapters : getChapterNotes(ch.id) = notes /\ notes # {}

\* C8 (as stated): once the only chapter of a subject is deleted, a fetch
\* of the subject page that is answered, in a mounted page as well, shows
\* zero chapters, zero notes and zero videos.
C8_EmptyAfterChapterDelete ==
    [][(FetchedSubject /\ ~\E ch \in chapters : ch.subject_id = route.id)
          => (sd'.chapters = {} /\ sd'.notes = {} /\ sd'.videos = {})]_vars

\* C3 witness: the Admin page still takes the clicks of a signed-in user
\* whose stored is_admin flag he has switched off himself.
C3_Witness ==
    /\ AdminReady /\ AdminGate
    /\ \E d \in userData : \E r \in users : r.id = d.id /\ ~r.is_admin /\ r.role = "admin"

\* C4 witness: a user promoted with toggleUserAdmin whom the policies still
\* refuse.
C4_Witness ==
    \E r \in users : r.is_admin /\ r.role = "user" /\ ~ContentWritePolicy(r.email)

\* C8 witness: the subject page shows no chapter, yet counts a note or a
\* video of the deleted chapter.
C8_Witness ==
    /\ route.path = "/subjects" /\ ~dirty /\ ~sd.loading /\ sd.subject # {}
    /\ sd.chapters = {} /\ ~\E ch \in chapters : ch.subject_id = route.id
    /\ (sd.notes # {} \/ sd.videos # {})


\* The stored users row of e-mail e.
StoredUser(e) == {r \in users : r.email = e}

\* C11: every principal that has authenticated has a users row which a
\* look-up by its own e-mail returns; a row created in a step (by the
\* sign-up trigger) has access = FALSE and role = 'user'; an answered
\* fetchUserData of the session's e-mail makes userData that stored row.
C11_LookupOrCreate ==
    /\ [](\A e \in authUsers : FetchedUserData(e) = StoredUser(e) /\ Cardinality(StoredUser(e)) = 1)
    /\ [][\A r \in users' : r.id \notin Ids(users) => (r.access = FALSE /\ r.role = "user")]_vars
    /\ [][\A e \in Emails : (e = session /\ FetchUserDataDone(e, FALSE))
             => (userData' = StoredUser(e) /\ userData' # {})]_vars

\* C11 witness: a principal whose row the sign-up trigger created is signed
\* in and userData holds that row with its initial flags.
C11_Witness ==
    /\ session = ScenarioUser
    /\ userData = StoredUser(ScenarioUser)
    /\ \E d \in userData : d.access = FALSE /\ d.role = "user"


\* ------------------------------------ the Admin page beside other admins
\* The browser of SpecAdmin while admins working elsewhere change access
\* flags, so that the page's users list can be behind the table.
NextToggle ==
    \/ NextAdmin
    \/ \E c \in Admins, r \in users, a \in BOOLEAN : ApiUpdateUser(c, r.id, "access", a)

SpecToggle == Init /\ [][NextToggle]_vars

\* C12: an accepted toggleUserAccess(userId, currentAccess) sent by an admin
\* stores access = ~currentAccess in the row with that id and changes no
\* other row or field, whatever the stored value was, so the same call
\* sent again changes nothing; sent by a caller who is not an admin it
\* changes no row.
C12_ToggleAccess ==
    [][\A u \in ad.users : toggleUserAccess(u.id, u.access, FALSE) =>
          /\ is_admin(Jwt) =>
                users' = {IF r.id = u.id THEN [r EXCEPT !.access = ~u.access] ELSE r : r \in users}
          /\ ~is_admin(Jwt) => users' = users
          /\ (\E r \in users : r.id = u.id /\ r.access = ~u.access) => users' = users]_vars

\* C12 witness: an admin's page lists a user with the access value the
\* admin's own toggle stored, after another admin had already stored it.
C12_Witness ==
    /\ AdminReady /\ is_admin(Jwt) /\ toast = "success"
    /\ \E u \in ad.users : \E r \in users :
          r.id = u.id /\ r.email = ScenarioUser /\ r.access /\ u.access


\* Only white space, or nothing, was typed.
Blank(text) == \A i \in 1..Len(text) : text[i] = " "

NothingStored == UNCHANGED <<ContentRows, storage, seq>>

\* The values the forms' validation can take on inputs with a field
\* missing: a blank name or title, nothing selected (0), no file, a blank URL.
SubjectFormMissing == {Filled(name) : name \in {t \in FormTexts : Blank(t)}}

ChapterFormMissing(s) ==
    {Filled(title) : title \in {t \in FormTexts : Blank(t) \/ s = 0}}

NoteFormMissing(ch) ==
    {Filled(x[1]) /\ x[2] # Null :
        x \in {y \in FormTexts \X FormFiles : Blank(y[1]) \/ y[2] = Null \/ ch = 0}}

VideoFormMissing(ch) ==
    {Filled(x[1]) /\ Filled(x[2]) :
        x \in {y \in FormTexts \X FormTexts : Blank(y[1]) \/ Blank(y[2]) \/ ch = 0}}

\* C13: createSubject, createChapter, uploadNote and createVideo called with
\* a blank name or title, with no subject or chapter selected, with no file
\* (uploadNote) or with a blank URL (createVideo) leave the tables, the
\* bucket and the id counters unchanged and raise an error toast.
C13_RequiredFields ==
    [][(AdminReady /\ ~(NothingStored /\ toast' = "error")) =>
          /\ \A ok \in SubjectFormMissing, f \in FetchFails : ~createSubject(ok, f)
          /\ \A s \in 0..MaxSubjects : \A ok \in ChapterFormMissing(s), f \in FetchFails :
                ~createChapter(ok, s, f)
          /\ \A ch \in 0..MaxChapters : \A ok \in NoteFormMissing(ch),
                failed \in {"none", "upload", "insert"}, f \in FetchFails :
                ~uploadNote(ok, ch, failed, f)
          /\ \A ch \in 0..MaxChapters : \A ok \in VideoFormMissing(ch), f \in FetchFails :
                ~createVideo(ok, ch, f)]_vars

\* C13 witness: an admin whose page lists a chapter and whose writes the
\* server would accept sees an error toast and nothing was stored beyond
\* the subject and the chapter.
C13_Witness ==
    /\ AdminReady /\ is_admin(Jwt) /\ toast = "error"
    /\ ad.chapters # {} /\ ad.chapters = chapters
    /\ notes = {} /\ videos = {} /\ storage = {}
    /\ seq.notes = 0 /\ seq.videos = 0 /\ seq.files = 0


SameRows(T, T2) == \A r \in T, r2 \in T2 : r2.id = r.id => r2 = r

\* C14: in every step each subjects, chapters, notes and videos row that
\* is still stored afterwards has the field values it had before, so a row
\* keeps the values it was inserted with for as long as it exists.
C14_ContentRowsImmutable ==
    [][/\ SameRows(subjects, subjects')
       /\ SameRows(chapters, chapters')
       /\ SameRows(notes, notes')
       /\ SameRows(videos, videos')]_vars

\* C14 witness: a note has survived the deletion of another chapter while
\* a users row has been updated.
C14_Witness ==
    /\ notes # {}
    /\ seq.chapters > Cardinality(chapters)
    /\ \E r \in users : r.email # BootstrapAdmin /\ r.access


\* C15: an upload to the bucket sent by a caller who is not an admin stores
\* nothing, and every caller, signed up or not, with or without access,
\* can read every stored file, referenced by a notes row or not.
C15_StorageAccess ==
    /\ [](\A c \in Emails \cup {Anon} : SelectStorage(c) = storage)
    /\ [][\A c \in Callers : (NotAdminRow(c) /\ ApiUpload(c)) => UNCHANGED storage]_vars

\* C15 witness: a file no notes row references is stored while a signed-up
\* caller has neither access nor the admin role.
C15_Witness ==
    /\ \E k \in storage : ~\E n \in notes : n.pdf_url = k
    /\ \E r \in users : r.email \in authUsers /\ ~r.access /\ r.role # "admin"


\* SubjectDetail's effect fetches for a subject id that is not stored.
FetchedMissingSubject ==
    /\ SubjectDetailEffect(0)
    /\ \E d \in userData : d.access
    /\ route.id \notin Ids(subjects)

\* C16 (as stated): a fetch of the subject page for a subject id that is
\* not stored, on a page just opened or on a page that had loaded the
\* subject before it was deleted, ends in 'Subject Not Found' with loading
\* false and no chapter, note or video shown.
C16_NotFound ==
    [][FetchedMissingSubject =>
          (SubjectNotFound' /\ ShownChapters' = {})]_vars

\* C16 witness: after its fetch the page still shows a subject that is no
\* longer stored, with the chapters it had loaded.
C16_Witness ==
    /\ route.path = "/subjects" /\ ~dirty /\ ~sd.loading /\ fetches = {}
    /\ sd.subject # {} /\ route.id \notin Ids(subjects)
    /\ ShownChapters # {}


\* A step in which a read of AuthContext, Dashboard or SubjectDetail has
\* failed (and which an answered read could not have produced).
FailedRead ==
    \/ \E e \in Emails : FetchUserDataDone(e, TRUE) /\ ~FetchUserDataDone(e, FALSE)
    \/ DashboardEffect(TRUE) /\ ~DashboardEffect(FALSE)
    \/ \E f \in 1..4 : SubjectDetailEffect(f) /\ ~SubjectDetailEffect(0)

\* C17 (as stated): a failed call of fetchUserData, fetchContent or
\* fetchSubjectData leaves an error message on the screen, as a failed
\* Admin operation does.
C17_ErrorsShown == [][FailedRead => toast' = "error"]_vars


\* ============================================================ SpecOrder
\* The listings with their ORDER BY.  A name/title is its collation rank;
\* created_at is the instant of the INSERT (DEFAULT now()), so it follows
\* the order in which the rows were created.
\* .order(col): the rows in non-decreasing col; Postgres leaves the order of
\* rows with equal col open.
OrderBy_mut_unordered(rows, col) ==
    {s \in [1..Cardinality(rows) -> rows] : {s[i] : i \in DOMAIN s} = rows}

OrderBy(rows, col) ==
    {s \in [1..Cardinality(rows) -> rows] :
        /\ {s[i] : i \in DOMAIN s} = rows
        /\ \A i, j \in DOMAIN s : i < j => s[i][col] <= s[j][col]}

\* .order('created_at', { ascending: false })
OrderByDesc(rows, col) ==
    {s \in [1..Cardinality(rows) -> rows] :
        /\ {s[i] : i \in DOMAIN s} = rows
        /\ \A i, j \in DOMAIN s : i < j => s[i][col] >= s[j][col]}

\* The state of a page that has listed nothing yet: its listings are
\* sequences here.
DashUnlisted == [subjects |-> <<>>]
SdUnlisted == [subject |-> {}, chapters |-> <<>>, notes |-> <<>>, videos |-> <<>>,
               loading |-> TRUE]
AdUnlisted == [users |-> <<>>, subjects |-> <<>>, chapters |-> <<>>, notes |-> <<>>,
               videos |-> <<>>, loading |-> TRUE]

\* The queries of Dashboard.fetchContent, with their order.
fetchContentOrdered ==
    /\ \E su \in OrderBy(SelectSubjects(Jwt), "name") :
           dash' = [subjects |-> su]
    /\ sd' = SdUnlisted
    /\ ad' = AdUnlisted
    /\ UNCHANGED <<serverVars, session, userData, fetches, route, landing, dirty, toast>>

\* The queries of SubjectDetail.fetchSubjectData, with their order.
fetchSubjectDataOrdered(subjectId) ==
    LET subj == {x \in SelectSubjects(Jwt) : x.id = subjectId}
        chs == {c \in SelectChapters(Jwt) : c.subject_id = subjectId}
        chapterIds == Ids(chs)
        ns == {n \in SelectNotes(Jwt) : n.chapter_id \in chapterIds}
        vs == {v \in SelectVideos(Jwt) : v.chapter_id \in chapterIds}
    IN  /\ subj # {}
        /\ \E ch \in OrderBy(chs, "created_at"),
              n \in OrderBy(ns, "title"), v \in OrderBy(vs, "title") :
               sd' = [subject |-> subj, chapters |-> ch, notes |-> n, videos |-> v,
                      loading |-> FALSE]
        /\ dash' = DashUnlisted
        /\ ad' = AdUnlisted
        /\ UNCHANGED <<serverVars, session, userData, fetches, route, landing, dirty, toast>>

\* The queries of Admin.fetchData, with their order.
fetchDataOrdered ==
    /\ \E us \in OrderByDesc(SelectUsers(Jwt), "created_at"),
          su \in OrderBy(SelectSubjects(Jwt), "name"),
          ch \in OrderBy(SelectChapters(Jwt), "created_at"),
          n \in OrderBy(SelectNotes(Jwt), "title"),
          v \in OrderBy(SelectVideos(Jwt), "title") :
           ad' = [users |-> us, subjects |-> su, chapters |-> ch, notes |-> n,
                  videos |-> v, loading |-> FALSE]
    /\ dash' = DashUnlisted
    /\ sd' = SdUnlisted
    /\ UNCHANGED <<serverVars, session, userData, fetches, route, landing, dirty, toast>>

Titles == 1..MaxTitle
Listed == 1..MaxListed

\* MaxListed rows in each table, created in the order of their ids; every
\* chapter belongs to subject 1, note and video i to chapter i.
InitOrder ==
    /\ schema = [videosFk |-> "chapters", isAdminColumn |-> TRUE]
    /\ authUsers = {BootstrapAdmin}
    /\ users = {[id |-> 1, email |-> BootstrapAdmin, access |-> TRUE, role |-> "admin",
                 is_admin |-> TRUE, created_at |-> 1],
                [id |-> 2, email |-> "a@x", access |-> FALSE, role |-> "user",
                 is_admin |-> FALSE, created_at |-> 2]}
    /\ \E t \in [Listed -> Titles] :
           subjects = {[id |-> i, name |-> t[i], created_at |-> i] : i \in Listed}
    /\ \E t \in [Listed -> Titles] :
           chapters = {[id |-> i, subject_id |-> 1, title |-> t[i], created_at |-> i] :
                           i \in Listed}
    /\ \E t \in [Listed -> Titles] :
           notes = {[id |-> i, chapter_id |-> i, title |-> t[i], pdf_url |-> i,
                     created_at |-> i] : i \in Listed}
    /\ \E t \in [Listed -> Titles] :
           videos = {[id |-> i, chapter_id |-> i, title |-> t[i], created_at |-> i] :
                         i \in Listed}
    /\ storage = Listed
    /\ seq = [subjects |-> MaxListed, chapters |-> MaxListed, notes |-> MaxListed,
              videos |-> MaxListed, files |-> MaxListed, users |-> 2]
    /\ session = BootstrapAdmin
    /\ userData = {u \in users : u.email = BootstrapAdmin}
    /\ fetches = {}
    /\ route = Home
    /\ landing = Home
    /\ dirty = FALSE
    /\ dash = DashUnlisted
    /\ sd = SdUnlisted
    /\ ad = AdUnlisted
    /\ toast = "none"

NextOrder ==
    \/ fetchContentOrdered
    \/ \E s \in Ids(subjects) : fetchSubjectDataOrdered(s)
    \/ fetchDataOrdered

SpecOrder == InitOrder /\ [][NextOrder]_vars

\* s lists its rows in non-decreasing col.
Sorted(s, col) == \A i, j \in DOMAIN s : i < j => s[i][col] <= s[j][col]

\* What fetchContent, fetchSubjectData and fetchData order alike: subjects
\* by name, notes and videos by title.
TitleOrdered ==
    /\ Sorted(dash.subjects, "name")
    /\ Sorted(sd.notes, "title") /\ Sorted(sd.videos, "title")
    /\ Sorted(ad.subjects, "name")
    /\ Sorted(ad.notes, "title") /\ Sorted(ad.videos, "title")

\* C18 (as stated): every content listing is in name/title order, the
\* chapters of a subject by title included, on the subject page and on the
\* admin page.
C18_AllByTitle ==
    /\ TitleOrdered
    /\ Sorted(sd.chapters, "title")
    /\ Sorted(ad.chapters, "title")

\* C18 (amended): subjects are listed by name, notes and videos by title,
\* and chapters in the order of their creation (created_at), on both pages.
C18_ChaptersByCreation ==
    /\ TitleOrdered
    /\ Sorted(sd.chapters, "created_at")
    /\ Sorted(ad.chapters, "created_at")

\* The admin page has listed two chapters whose titles run against their
\* creation order, and notes whose titles run against theirs.
C18_Witness ==
    /\ ~ad.loading
    /\ Len(ad.chapters) = 2
    /\ ad.chapters[1].title > ad.chapters[2].title
    /\ Len(ad.notes) = 2
    /\ ad.notes[1].title < ad.notes[2].title
    /\ ad.notes[1].created_at > ad.notes[2].created_at
    /\ Len(ad.subjects) = 2
    /\ ad.subjects[1].name < ad.subjects[2].name
    /\ ad.subjects[1].created_at > ad.subjects[2].created_at


\* The Note rows a step inserts.
NewNotes == notes' \ notes

\* C19: a Note row is only inserted by an uploadNote whose storage upload
\* has succeeded just before, under the key the row's pdf_url names; so
\* every Note row's pdf_url names a stored file.
C19_UploadPrecedesInsert ==
    /\ [](\A n \in notes : n.pdf_url \in storage)
    /\ [][\A n \in NewNotes : n.pdf_url \in storage' \ storage]_vars

\* uploadNote has gone through: there is a Note row, and its pdf_url names
\* the file stored for it.
C19_Witness ==
    /\ toast = "success"
    /\ notes # {}
    /\ \A n \in notes : n.pdf_url \in storage


\* The stored files no Note row refers to.
Orphans == {k \in storage : \A n \in notes : n.pdf_url # k}

\* C20: a file uploaded by an uploadNote whose notes insert fails is left
\* in the bucket with no Note row naming it, and stays so; no step, the
\* deletion of a Note, Chapter or Subject included, removes a stored file.
C20_OrphanFileKept ==
    [][/\ storage \subseteq storage'
       /\ Orphans \subseteq Orphans'
       /\ NewNotes = {} => (storage' \ storage) \subseteq Orphans']_vars

\* An upload has stored a file and no Note row was ever inserted.
C20_Witness ==
    /\ storage # {}
    /\ seq.notes = 0
    /\ Orphans = storage
    /\ toast = "error"


\* ============================================================= SpecRace
\* toggleUserAccess and toggleUserAdmin are async: the handler sends the
\* update and awaits the response; what follows the await runs with the
\* `users` (and userData) of the render in which the switch was clicked.
\* ad.pending holds the handler calls that are at their await.
ToggleCall(op, userId, current) ==
    [op |-> op, id |-> userId, current |-> current, users |-> ad.users]

\* toggleUserAccess up to its await.
toggleUserAccessStart(userId, currentAccess) ==
    /\ AdminReady
    /\ Cardinality(ad.pending) < MaxPending
    /\ \E u \in ad.users : u.id = userId /\ u.access = currentAccess
    /\ ad' = [ad EXCEPT !.pending = @ \cup {ToggleCall("access", userId, currentAccess)}]
    /\ UNCHANGED <<serverVars, session, userData, fetches, route, landing, dirty, dash, sd, toast>>

\* toggleUserAdmin up to its await.
toggleUserAdminStart(userId, currentIsAdmin) ==
    /\ AdminReady
    /\ Cardinality(ad.pending) < MaxPending
    /\ \E u \in ad.users : u.id = userId /\ u.is_admin = currentIsAdmin
    /\ ad' = [ad EXCEPT !.pending = @ \cup {ToggleCall("is_admin", userId, currentIsAdmin)}]
    /\ UNCHANGED <<serverVars, session, userData, fetches, route, landing, dirty, dash, sd, toast>>

\* toggleUserAccess whose update carries a condition on the stored value.
toggleUserAccessDone_mut_conflict(call, failed) ==
    /\ call \in ad.pending /\ call.op = "access"
    /\ IF failed \/ \E r \in users : r.id = call.id /\ r.access # call.current
       THEN /\ UNCHANGED users
            /\ ad' = [ad EXCEPT !.pending = @ \ {call}]
            /\ toast' = "error"
       ELSE /\ UpdateUser(Jwt, call.id, "access", ~call.current)
            /\ ad' = [ad EXCEPT !.pending = @ \ {call}]
            /\ toast' = "success"
    /\ UNCHANGED <<schema, authUsers, subjects, chapters, notes, videos, storage, seq>>
    /\ UNCHANGED <<session, userData, fetches, route, landing, dirty, dash, sd>>

\* The update of a toggleUserAccess is applied and answered: the handler
\* resumes with setUsers(users.map(...)) over the users of its own render.
toggleUserAccessDone(call, failed) ==
    /\ call \in ad.pending /\ call.op = "access"
    /\ IF failed
       THEN /\ UNCHANGED users
            /\ ad' = [ad EXCEPT !.pending = @ \ {call}]
            /\ toast' = "error"
       ELSE /\ UpdateUser(Jwt, call.id, "access", ~call.current)
            /\ ad' = [ad EXCEPT !.users =
                        {IF u.id = call.id THEN [u EXCEPT !.access = ~call.current] ELSE u
                           : u \in call.users},
                                !.pending = @ \ {call}]
            /\ toast' = "success"
    /\ UNCHANGED <<schema, authUsers, subjects, chapters, notes, videos, storage, seq>>
    /\ UNCHANGED <<session, userData, fetches, route, landing, dirty, dash, sd>>

\* The same for toggleUserAdmin; after a change of the caller's own row it
\* calls refetchUserData(), which useAuth() does not provide.
toggleUserAdminDone(call, failed) ==
    /\ call \in ad.pending /\ call.op = "is_admin"
    /\ IF failed \/ UpdateUserError("is_admin")
       THEN /\ UNCHANGED users
            /\ ad' = [ad EXCEPT !.pending = @ \ {call}]
            /\ toast' = "error"
       ELSE /\ UpdateUser(Jwt, call.id, "is_admin", ~call.current)
            /\ ad' = [ad EXCEPT !.users =
                        {IF u.id = call.id THEN [u EXCEPT !.is_admin = ~call.current] ELSE u
                           : u \in call.users},
                                !.pending = @ \ {call}]
            /\ toast' = IF (\E d \in userData : d.id = call.id)
                           /\ "refetchUserData" \notin AuthContextValue
                        THEN "error" ELSE "success"
    /\ UNCHANGED <<schema, authUsers, subjects, chapters, notes, videos, storage, seq>>
    /\ UNCHANGED <<session, userData, fetches, route, landing, dirty, dash, sd>>

\* The bootstrap admin on the users tab of '/admin', its list just read;
\* the other principal has a row and may be an admin too.
InitRace ==
    /\ schema = [videosFk |-> "chapters", isAdminColumn |-> TRUE]
    /\ authUsers = Emails
    /\ \E a \in BOOLEAN, role \in {"user", "admin"} :
          users = {UserRow(1, BootstrapAdmin, TRUE, "admin", TRUE),
                   UserRow(2, ScenarioUser, a, role, FALSE)}
    /\ subjects = {}
    /\ chapters = {}
    /\ notes = {}
    /\ videos = {}
    /\ storage = {}
    /\ seq = [users |-> 2, subjects |-> 0, chapters |-> 0, notes |-> 0,
              videos |-> 0, files |-> 0]
    /\ session = BootstrapAdmin
    /\ userData = {r \in users : r.email = BootstrapAdmin}
    /\ fetches = {}
    /\ route = AdminRoute
    /\ landing = AdminRoute
    /\ dirty = FALSE
    /\ dash = DashInit
    /\ sd = SdInit
    /\ ad = [users |-> users, subjects |-> {}, chapters |-> {}, notes |-> {},
             videos |-> {}, loading |-> FALSE, pending |-> {}]
    /\ toast = "none"

\* The admins at work in other browsers.
OtherAdmins == Admins \ {session}

NextRace ==
    \/ \E u \in ad.users : toggleUserAccessStart(u.id, u.access)
    \/ \E u \in ad.users : toggleUserAdminStart(u.id, u.is_admin)
    \/ \E call \in ad.pending, failed \in BOOLEAN : toggleUserAccessDone(call, failed)
    \/ \E call \in ad.pending, failed \in BOOLEAN : toggleUserAdminDone(call, failed)
    \/ \E c \in OtherAdmins, r \in users, a \in BOOLEAN : ApiUpdateUser(c, r.id, "access", a)

SpecRace == InitRace /\ [][NextRace]_vars

\* The stored access flag of the row with this id.
StoredAccess(userId) == {r.access : r \in {x \in users : x.id = userId}}

\* C21: an access update sent by an admin is accepted whatever the stored
\* value is at that moment, and leaves the stored flag equal to the value
\* that update carries: the negation of the view its sender held.
C21_LastWriteWins ==
    /\ [][\A call \in ad.pending : toggleUserAccessDone(call, FALSE) =>
             (toast' = "success" /\ StoredAccess(call.id)' = {~call.current})]_vars
    /\ [][\A c \in OtherAdmins, r \in users, a \in BOOLEAN :
             ApiUpdateUser(c, r.id, "access", a) => StoredAccess(r.id)' = {a}]_vars

\* Two admins held the same view of a user's flag: the other admin's
\* update is stored, this page's update of the same view is at its await.
C21_Witness ==
    /\ Cardinality(Admins) = 2
    /\ toast = "none"
    /\ \E call \in ad.pending :
          /\ ad.pending = {call}
          /\ call.op = "access"
          /\ StoredAccess(call.id) = {~call.current}


\* A toggle of the page whose update the server does not apply: the request
\* fails, names a column the table lacks, or is refused by the policy
\* "Admins can update all users".
RefusedToggle(u) ==
    \/ toggleUserAccess(u.id, u.access, TRUE)
    \/ toggleUserAdmin(u.id, u.is_admin, TRUE)
    \/ ~UsersUpdatePolicy(Jwt) /\ toggleUserAccess(u.id, u.access, FALSE)
    \/ (~UsersUpdatePolicy(Jwt) \/ UpdateUserError("is_admin"))
          /\ toggleUserAdmin(u.id, u.is_admin, FALSE)

\* C22 (as stated): a toggle whose update is rejected shows an error and
\* leaves the page's users list and the stored rows as they were.
C22_RejectedToggle ==
    [][AdminReady => \A u \in ad.users : RefusedToggle(u) =>
          (toast' = "error" /\ ad'.users = ad.users /\ users' = users)]_vars

\* The page reports success and lists an access value that the policy kept
\* the update from storing.
C22_Witness ==
    /\ AdminReady /\ toast = "success"
    /\ ~UsersUpdatePolicy(Jwt)
    /\ \E u \in ad.users : \E r \in users : r.id = u.id /\ r.access # u.access


\* userData is set and has access = true.
HasAccess == \E d \in userData : d.access

\* userData is the record of the user who is signed in, with access = true.
OwnAccess == \E d \in userData : d.access /\ d.email = session

\* A step in which an answered content read has filled the state of the
\* Dashboard or of the subject page.
ContentRead ==
    \/ dash'.subjects # dash.subjects /\ dash'.subjects # {}
    \/ sd' # sd /\ sd' # SdInit

\* C23 (as stated): a content read is only issued in a state where the
\* record of the signed-in user has been fetched and has access = true, and
\* without access the Dashboard renders none of the subjects it holds.
C23_ReadsNeedOwnAccess ==
    /\ [][ContentRead => OwnAccess]_vars
    /\ [](~HasAccess => VisibleSubjects = {})

\* The subject page has issued its reads for a visitor who is signed out,
\* on the strength of the record a late response left in userData.
C23_Witness ==
    /\ session = Null
    /\ HasAccess
    /\ route.path = "/subjects" /\ ~dirty /\ ~sd.loading


\* C24 (as stated): whenever nobody is signed in, userData is null, also
\* after the response of a fetchUserData sent before the sign-out.
C24_SignedOutNoUserData == session = Null => userData = {}

\* Signed out, no request in flight, and userData holds the record that a
\* response delivered after the sign-out.
C24_Witness == session = Null /\ fetches = {} /\ userData # {} /\ ~dirty


\* ============================================================= SpecAuth
\* onAuthStateChange fires in the running document with the session of
\* another principal (a sign-in completed in another tab of the browser):
\* setSession, and fetchUserData is scheduled; userData is left as it is.
AuthChange(e) ==
    /\ ~dirty
    /\ session # Null
    /\ e # session
    /\ IF e \in authUsers THEN UNCHANGED serverVars ELSE SignUp(e)
    /\ session' = e
    /\ fetches' = fetches \cup {e}
    /\ UNCHANGED <<userData, route, landing, dirty, dash, sd, ad, toast>>

NextAuth ==
    \/ \E e \in Emails : SignIn(e)
    \/ SignOut
    \/ AuthEvent
    \/ \E e \in Emails : AuthChange(e)
    \/ \E e \in Emails, failed \in BOOLEAN : FetchUserDataDone(e, failed)
    \/ PageLoad(Home)
    \/ \E failed \in BOOLEAN : DashboardEffect(failed)
    \/ \E c \in Admins, r \in users, a \in BOOLEAN : ApiUpdateUser(c, r.id, "access", a)
    \/ \E c \in Admins : ApiInsertSubject(c)

SpecAuth == Init /\ [][NextAuth]_vars

\* C25 (as stated): whenever userData is set, it is the record of the
\* principal of the current session, in whatever order the responses of
\* the scheduled fetchUserData calls arrive.
C25_UserDataOfSession == \A d \in userData : d.email = session

\* A principal is signed in, no response is outstanding, and userData is
\* the record of the principal that was signed in before.
C25_Witness ==
    /\ session \in Emails /\ fetches = {} /\ ~dirty
    /\ \E d \in userData : d.email \in Emails \ {session}


\* The update of an awaited toggle is applied and answered with success.
ToggleAnswered(call) ==
    toggleUserAccessDone(call, FALSE) \/ toggleUserAdminDone(call, FALSE)

\* C26 (as stated): when the response of a toggle arrives, the entries of
\* the other users in the page's list that agree with the stored rows still
\* do so afterwards; so after two overlapping toggles on two users the list
\* shows the new value of both.
C26_BothTogglesShown ==
    [][\A call \in ad.pending : ToggleAnswered(call) =>
          \A u \in ad.users : (u.id # call.id /\ u \in users) => u \in ad'.users]_vars

\* This admin alone has written, every toggle has been answered, the last
\* one with success, and the page's list differs from the table.
C26_Witness ==
    /\ OtherAdmins = {}
    /\ ad.pending = {}
    /\ toast = "success"
    /\ ad.users # users


\* The document was loaded at the URL of a routed page by a signed-in user
\* whom that page is for, and the page's first effect is due while the
\* response of fetchUserData is still outstanding.
FreshLoad ==
    /\ dirty /\ route # Home /\ landing = route
    /\ session # Null /\ userData = {} /\ session \in fetches
    /\ \/ route.path = "/subjects" /\ user_has_access(session)
                                   /\ route.id \in Ids(subjects)
       \/ route = AdminRoute /\ \E r \in users : r.email = session /\ r.is_admin

\* C27 (as stated): the page of a fresh load is not left for '/' because
\* userData had not been fetched yet when it mounted.
C27_NoBounce == [][FreshLoad => route' = route]_vars


\* No users row carries the admin flag that the Admin page shows, switches
\* and gates on.
NoAdminFlag == \A r \in users : ~r.is_admin

\* C28 (as stated): once no record designates an admin, no operation of
\* the application makes one.
C28_NoAdminStaysNoAdmin == [][NoAdminFlag => NoAdminFlag']_vars

\* The only admin has switched their own flag off and then switched a flag
\* on again from the page that stayed open.
C28_Witness ==
    /\ AdminReady /\ toast = "success"
    /\ \E d \in userData : d.is_admin /\ \E r \in users : r.id = d.id /\ ~r.is_admin
    /\ \E r \in users : r.is_admin


\* =========================================================== SpecLegacy
\* on_auth_user_created fires AFTER INSERT ON auth.users and the migration
\* that creates it back-fills nothing: an account that existed before has
\* no users row (the case fetchUserData treats as PGRST116) until someone
\* inserts one.
InitLegacy ==
    /\ schema \in Schemas
    /\ authUsers \in SUBSET Emails
    /\ users = {UserRow(1, BootstrapAdmin, TRUE, "admin", schema.isAdminColumn)}
    /\ subjects = {}
    /\ chapters = {}
    /\ notes = {}
    /\ videos = {}
    /\ storage = {}
    /\ seq = [users |-> 1, subjects |-> 0, chapters |-> 0, notes |-> 0,
              videos |-> 0, files |-> 0]
    /\ ClientInit

NextLegacy ==
    \/ \E e \in Emails : ApiSignUp(e)
    \/ \E c \in Callers, e \in Emails, a \in BOOLEAN, ro \in {"user", "admin"} :
          ApiInsertUser(c, e, a, ro)
    \/ \E c \in Callers : ApiInsertSubject(c)
    \/ \E c \in Callers, s \in 1..MaxSubjects : ApiInsertChapter(c, s)
    \/ \E c \in Callers, s \in 1..MaxSubjects : ApiDeleteSubject(c, s)
    \/ \E c \in Callers, ch \in 1..MaxChapters : ApiDeleteChapter(c, ch)

SpecLegacy == InitLegacy /\ [][NextLegacy]_vars

\* The users rows a step creates.
NewUsers == {r \in users' : r.id \notin Ids(users)}

\* C29 (as stated): a users row that comes into being, by the sign-up
\* trigger or by a principal's insert of their own record, has
\* access = false and role = 'user'.
C29_SelfInsertUnprivileged ==
    [][\A r \in NewUsers : r.access = FALSE /\ r.role = "user"]_vars

\* A principal who had no row holds access and admin rights by a row that
\* nobody but themselves can have written.
C29_Witness ==
    /\ user_has_access(ScenarioUser)
    /\ is_admin(ScenarioUser)


\* A step that runs fetchData with its f-th read failing (0: none): the
\* effect of the mounted page, or a handler that ends with fetchData().
FetchDataRan(f) ==
    \/ AdminGate /\ AdminEffect(f)
    \/ ContentWritePolicy(Jwt) /\ createSubject(TRUE, f)
    \/ \E s \in Ids(ad.subjects) : deleteSubject(s, f)

\* The list fetchData reads as its k-th is fresh when no read up to the
\* k-th failed, and otherwise what it was.
ListAfter(f, k, table, list) == IF f = 0 \/ f > k THEN table ELSE list

\* C30: fetchData reads users, subjects, chapters, notes, videos in that
\* order and stops at the first failed read: the lists read before it equal
\* the stored tables, the others keep their contents, an error is shown
\* and loading is false; with no failure all five lists equal the tables.
C30_FetchDataPartial ==
    [][(route = AdminRoute /\ ad' # ad) => \A f \in FetchFails : FetchDataRan(f) =>
          /\ ad'.loading = FALSE
          /\ f # 0 => toast' = "error"
          /\ ad'.users = ListAfter(f, 1, users', ad.users)
          /\ ad'.subjects = ListAfter(f, 2, subjects', ad.subjects)
          /\ ad'.chapters = ListAfter(f, 3, chapters', ad.chapters)
          /\ ad'.notes = ListAfter(f, 4, notes', ad.notes)
          /\ ad'.videos = ListAfter(f, 5, videos', ad.videos)]_vars

\* fetchData has stopped at its chapters read: the users and subjects lists
\* are those of the tables and the chapters list is behind its table.
C30_Witness ==
    /\ AdminReady /\ toast = "error"
    /\ ad.users = users /\ ad.subjects = subjects /\ subjects # {}
    /\ ad.chapters # chapters

====
